---- MODULE Spec2Model ----
(***************************************************************************)
(* Burn severity mapping (burn_severity_mapping.js), followed at ONE pixel *)
(* position of the common grid.  Every stage of the script is a pixel-wise *)
(* raster operation, so a raster is modelled by its value at that pixel:   *)
(* a record holding the pixel's mask (validity) and its band values.       *)
(*                                                                         *)
(* Band values are integers (scaled reflectance).  Index values (NBR,      *)
(* dNBR) are exact rationals num/den kept in lowest terms with den > 0;    *)
(* a rational with den = 0 stands for a NaN/Inf value.  The script's       *)
(* floating point rounding is not modelled.                                *)
(***************************************************************************)
EXTENDS Integers, Sequences, FiniteSets

VARIABLES
  pc,                 \* position in the script
  platform,           \* user input, line 49
  ImCol,              \* dataset id chosen from platform, lines 52-58
  pl,                 \* printed sensor name, lines 52-58
  prefireImCol,       \* date/bounds filtered collections, lines 75-86
  postfireImCol,
  prefire_CM_ImCol,   \* cloud masked collections, lines 132-138
  postfire_CM_ImCol,
  swater,             \* JRC seasonality at the pixel, clipped, line 144
  inArea,             \* whether the pixel lies inside `area`, line 64
  pre_cm_mos,         \* epoch composites, lines 150-151
  post_cm_mos,
  preNBR,             \* lines 158-164
  postNBR,
  dNBR_unscaled,      \* line 170
  dNBR,               \* line 173
  classified,         \* line 216
  err                 \* evaluation error raised by the platform, or "none"

vars == <<pc, platform, ImCol, pl, prefireImCol, postfireImCol,
          prefire_CM_ImCol, postfire_CM_ImCol, swater, inArea,
          pre_cm_mos, post_cm_mos, preNBR, postNBR, dNBR_unscaled, dNBR,
          classified, err>>

----------------------------------------------------------------------------
(* Bounds of the model *)

\* largest number of images a filtered collection holds
MaxImages == 2

\* classifier inputs lie within Spread thousandths of every threshold
Spread == 2

----------------------------------------------------------------------------
(* Arithmetic helpers *)

Abs(x) == IF x < 0 THEN -x ELSE x

RECURSIVE GCD(_, _)
GCD(a, b) == IF b = 0 THEN a ELSE GCD(b, a % b)

\* the rational n/d in lowest terms with a positive denominator;
\* d = 0 is kept as it is (a NaN/Inf value)
Norm(n, d) ==
  IF d = 0 THEN [num |-> n, den |-> 0]
  ELSE LET g == GCD(Abs(n), Abs(d))
           s == IF d < 0 THEN -1 ELSE 1
       IN  [num |-> (s * n) \div g, den |-> (s * d) \div g]

RECURSIVE bitwiseAnd(_, _)
bitwiseAnd(a, b) ==
  IF a = 0 \/ b = 0 THEN 0
  ELSE (a % 2) * (b % 2) + 2 * bitwiseAnd(a \div 2, b \div 2)

----------------------------------------------------------------------------
(* Configuration and inputs *)

\* values the user may type into `platform` (line 49); "XX" is an
\* identifier naming neither supported sensor
Platforms == {"L8", "S2", "s2", "XX"}

\* 1 << n
Shl(x, n) == x * 2^n

\* (NIR, SWIR2) band values of an image at the pixel; surface reflectance
\* products hold zeros and slightly negative values too
BandPairs == {<<5000, 1000>>, <<3000, 3000>>, <<0, 0>>, <<-100, 100>>}

\* The quality value of an image at the pixel.  Landsat 8 SR: pixel_qa,
\* 322 clear, 328 cloud shadow, 336 snow, 352 cloud.  Sentinel-2: the cloud
\* score collaborator's verdict, carried with the image (0 = clear).
ClearQA(dataset) == IF dataset = "COPERNICUS/S2" THEN {0} ELSE {322}

FlaggedQA(dataset) == IF dataset = "COPERNICUS/S2" THEN {1} ELSE {328, 336, 352}

\* the images of a dataset, each with all of its pixels unmasked.  The band
\* values under a flagged pixel are never read by the cloud masked
\* pipeline, so one pair stands for them all.
Images(dataset) ==
  {[qa |-> q, nir |-> p[1], swir |-> p[2], mask |-> TRUE] :
     q \in ClearQA(dataset), p \in BandPairs}
  \cup
  {[qa |-> q, nir |-> 5000, swir |-> 1000, mask |-> TRUE] :
     q \in FlaggedQA(dataset)}

\* what filterDate(..).filterBounds(..) can return: a date-ordered
\* sequence of images of the dataset, possibly empty
Collections(dataset) ==
  UNION {[1..n -> Images(dataset)] : n \in 0..MaxImages}

\* the seasonality band at the pixel: masked where there is no water
SeasonalityCutoff == 10

SeasonalityPixels ==
  {[mask |-> FALSE, val |-> 0]} \cup
  {[mask |-> TRUE, val |-> v] : v \in {SeasonalityCutoff - 1, SeasonalityCutoff}}

\* Seperate result into 8 burn severity classes
thresholds == <<-1000, -251, -101, 99, 269, 439, 659, 2000>>

\* Scale product to USGS standards
ScaleFactor == 1000

\* values of rasters that are not computed yet
NoRaster == [bands |-> FALSE, mask |-> FALSE, nir |-> 0, swir |-> 0]
NoIndex == [mask |-> FALSE, num |-> 0, den |-> 1]
NoClass == [mask |-> FALSE, val |-> 0]
NoWater == [mask |-> FALSE, val |-> 0]

----------------------------------------------------------------------------
(* Raster operations, at one pixel *)

\* image.updateMask(m): the new mask is the old mask AND m
updateMask(image, m) == [image EXCEPT !.mask = image.mask /\ m]

\* image.select("B[0-9]*"): the reflectance bands are kept, the quality
\* band is not part of the returned image
selectBands(image) ==
  [nir |-> image.nir, swir |-> image.swir, mask |-> image.mask]

\* Function to mask clouds from the pixel quality band of Landsat 8 SR data
\* (copyProperties carries the acquisition time, which orders the
\* collection and is not a pixel value)
maskL8sr(image) ==
  LET cloudShadowBitMask == Shl(1, 3)
      cloudsBitMask == Shl(1, 5)
      snowBitMask == Shl(1, 4)
      qa == image.qa
      m == /\ bitwiseAnd(qa, cloudShadowBitMask) = 0
           /\ bitwiseAnd(qa, cloudsBitMask) = 0
           /\ bitwiseAnd(qa, snowBitMask) = 0
  IN  selectBands(updateMask(image, m))

\* collection.map(maskL8sr)
mapMaskL8sr(col) == [i \in 1..Len(col) |-> maskL8sr(col[i])]

\* the cloud score collaborator: masks the pixels it scores as cloud and
\* returns the reflectance bands
CloudScoreMask(image) == selectBands(updateMask(image, image.qa = 0))

Sentinel2_CloudScore_Function(col) ==
  [i \in 1..Len(col) |-> CloudScoreMask(col[i])]

\* mosaic(): the images are composited in collection order, each valid
\* pixel painted over what is below it, so the last valid image is on top
RECURSIVE mosaicFrom(_, _, _)
mosaicFrom(col, i, acc) ==
  IF i > Len(col) THEN acc
  ELSE mosaicFrom(col, i + 1,
         IF col[i].mask
         THEN [bands |-> TRUE, mask |-> TRUE,
               nir |-> col[i].nir, swir |-> col[i].swir]
         ELSE acc)

\* variant: the first valid image wins
mosaicFirstValid(col) ==
  IF \E i \in 1..Len(col) : col[i].mask
  THEN LET f == CHOOSE i \in 1..Len(col) :
                  col[i].mask /\ \A j \in 1..(i - 1) : ~col[j].mask
       IN  [bands |-> TRUE, mask |-> TRUE,
            nir |-> col[f].nir, swir |-> col[f].swir]
  ELSE [bands |-> Len(col) > 0, mask |-> FALSE, nir |-> 0, swir |-> 0]

\* the mosaic of an empty collection is an image without bands
mosaic(col) ==
  mosaicFrom(col, 1,
             [bands |-> Len(col) > 0, mask |-> FALSE, nir |-> 0, swir |-> 0])

\* image.mask(m), the setter: the image's mask is REPLACED by m; a pixel
\* whose mask changes from zero to non-zero is filled with zeros
mask(image, m) ==
  [bands |-> image.bands,
   mask |-> image.bands /\ m.mask /\ m.val # 0,
   nir |-> IF image.mask THEN image.nir ELSE 0,
   swir |-> IF image.mask THEN image.swir ELSE 0]

\* image.clip(area)
clip(image, inside) == [image EXCEPT !.mask = image.mask /\ inside]

\* ee.Image.constant(1).where(swater.gte(10).updateMask(swater.gte(10)), 0)
swater_mask(sw) ==
  LET ge10 == [mask |-> sw.mask,
              val |-> IF sw.val >= SeasonalityCutoff THEN 1 ELSE 0]
      test == [ge10 EXCEPT !.mask = ge10.mask /\ ge10.val # 0]
  IN  [mask |-> TRUE, val |-> IF test.mask /\ test.val # 0 THEN 0 ELSE 1]

\* the composite of one epoch, lines 150-151
Composite(col, sw, inside) == clip(mask(mosaic(col), swater_mask(sw)), inside)

\* What normalizedDifference returns for a valid pixel whose two bands are
\* non-negative and sum to zero.  The script leaves this to the platform
\* and the platform's documentation does not state it: the pixel may be
\* masked, hold 0 (as a division by zero does), or hold a NaN.
ZeroSumOutcomes == {"masked", "zero", "nan"}

\* normalizedDifference([NIR, SWIR2]) = (NIR - SWIR2) / (NIR + SWIR2);
\* the output pixel is masked where the input is masked and where an input
\* band is negative; z is the platform's outcome for a zero sum
normalizedDifference(image, z) ==
  LET zs == image.nir + image.swir = 0
      m == /\ image.mask
           /\ image.nir >= 0 /\ image.swir >= 0
           /\ (zs => z # "masked")
      v == IF zs
           THEN [num |-> 0, den |-> IF z = "zero" THEN 1 ELSE 0]
           ELSE Norm(image.nir - image.swir, image.nir + image.swir)
  IN  [mask |-> m,
       num |-> IF m THEN v.num ELSE 0,
       den |-> IF m THEN v.den ELSE 1]

\* variant: valid where either input is valid
subtractEither(a, b) ==
  LET m == a.mask \/ b.mask
      v == Norm(a.num * b.den - b.num * a.den, a.den * b.den)
  IN  [mask |-> m, num |-> v.num, den |-> v.den]

\* a.subtract(b): valid where both inputs are valid
subtract(a, b) ==
  LET m == a.mask /\ b.mask
      v == Norm(a.num * b.den - b.num * a.den, a.den * b.den)
  IN  [mask |-> m,
       num |-> IF m THEN v.num ELSE 0,
       den |-> IF m THEN v.den ELSE 1]

\* variant: the scaling is left out
multiplyUnscaled(a, k) == a

\* a.multiply(k)
multiply(a, k) ==
  LET v == Norm(a.num * k, a.den)
  IN  [mask |-> a.mask,
       num |-> IF a.mask THEN v.num ELSE 0,
       den |-> IF a.mask THEN v.den ELSE 1]

\* x.lt(t) for one threshold band: 1 where x < t, else 0; a comparison
\* with a NaN is false
lt(x, t) == IF x.den > 0 /\ x.num < t * x.den THEN 1 ELSE 0

\* reduce('sum') over the bands 1..n of x.lt(thresholds)
RECURSIVE reduceSum(_, _)
reduceSum(x, n) ==
  IF n = 0 THEN 0 ELSE reduceSum(x, n - 1) + lt(x, thresholds[n])

\* variant: lte in place of lt
classifyLte(x) ==
  [mask |-> x.mask,
   val |-> IF x.mask
           THEN Cardinality({j \in 1..Len(thresholds) :
                               x.den > 0 /\ x.num <= thresholds[j] * x.den})
           ELSE 0]

\* variant: the thresholds at or below the value are counted
classifyAscending(x) ==
  [mask |-> x.mask,
   val |-> IF x.mask
           THEN Cardinality({j \in 1..Len(thresholds) :
                               x.den > 0 /\ x.num >= thresholds[j] * x.den})
           ELSE 0]

\* variant: the last threshold band is left out of the sum
classifyDropLast(x) ==
  [mask |-> x.mask,
   val |-> IF x.mask THEN reduceSum(x, Len(thresholds) - 1) ELSE 0]

\* dNBR.lt(thresholds).reduce('sum').toInt()
classify(x) ==
  [mask |-> x.mask,
   val |-> IF x.mask THEN reduceSum(x, Len(thresholds)) ELSE 0]

----------------------------------------------------------------------------
(* The script, statement by statement *)

Init ==
  /\ pc = "start"
  /\ platform \in Platforms
  /\ ImCol = "" /\ pl = ""
  /\ prefireImCol = <<>> /\ postfireImCol = <<>>
  /\ prefire_CM_ImCol = <<>> /\ postfire_CM_ImCol = <<>>
  /\ swater = NoWater /\ inArea = FALSE
  /\ pre_cm_mos = NoRaster /\ post_cm_mos = NoRaster
  /\ preNBR = NoIndex /\ postNBR = NoIndex
  /\ dNBR_unscaled = NoIndex /\ dNBR = NoIndex
  /\ classified = NoClass
  /\ err = "none"

\* platform == 'S2' | platform == 's2'
IsS2(p) == p = "S2" \/ p = "s2"

\* lines 52-58: every platform other than 'S2'/'s2' takes the else branch
SelectPlatform ==
  /\ pc = "start"
  /\ IF IsS2(platform)
     THEN ImCol' = "COPERNICUS/S2" /\ pl' = "Sentinel-2"
     ELSE ImCol' = "LANDSAT/LC08/C01/T1_SR" /\ pl' = "Landsat 8"
  /\ pc' = "selected"
  /\ UNCHANGED <<platform, prefireImCol, postfireImCol, prefire_CM_ImCol,
                 postfire_CM_ImCol, swater, inArea, pre_cm_mos, post_cm_mos,
                 preNBR, postNBR, dNBR_unscaled, dNBR, classified, err>>

\* lines 72-90: the filtered collections are printed, never tested
FilterCollections ==
  /\ pc = "selected"
  /\ \E pre \in Collections(ImCol), post \in Collections(ImCol) :
       /\ prefireImCol' = pre
       /\ postfireImCol' = post
  /\ pc' = "filtered"
  /\ UNCHANGED <<platform, ImCol, pl, prefire_CM_ImCol, postfire_CM_ImCol,
                 swater, inArea, pre_cm_mos, post_cm_mos, preNBR, postNBR,
                 dNBR_unscaled, dNBR, classified, err>>

\* lines 131-138: Apply platform-specific cloud mask
MaskClouds ==
  /\ pc = "filtered"
  /\ IF IsS2(platform)
     THEN /\ prefire_CM_ImCol' = Sentinel2_CloudScore_Function(prefireImCol)
          /\ postfire_CM_ImCol' = Sentinel2_CloudScore_Function(postfireImCol)
     ELSE /\ prefire_CM_ImCol' = mapMaskL8sr(prefireImCol)
          /\ postfire_CM_ImCol' = mapMaskL8sr(postfireImCol)
  /\ pc' = "masked"
  /\ UNCHANGED <<platform, ImCol, pl, prefireImCol, postfireImCol, swater,
                 inArea, pre_cm_mos, post_cm_mos, preNBR, postNBR,
                 dNBR_unscaled, dNBR, classified, err>>

\* lines 143-151: Mosaic and clip images to study area, and apply a mask
\* water.  The seasonality raster is clipped to the area as it is loaded.
MosaicAndClip ==
  /\ pc = "masked"
  /\ \E s \in SeasonalityPixels, a \in BOOLEAN :
       /\ inArea' = a
       /\ swater' = [s EXCEPT !.mask = s.mask /\ a]
       /\ pre_cm_mos' = Composite(prefire_CM_ImCol, swater', a)
       /\ post_cm_mos' = Composite(postfire_CM_ImCol, swater', a)
  /\ pc' = "mosaicked"
  /\ UNCHANGED <<platform, ImCol, pl, prefireImCol, postfireImCol,
                 prefire_CM_ImCol, postfire_CM_ImCol, preNBR, postNBR,
                 dNBR_unscaled, dNBR, classified, err>>

\* lines 157-164: the band names differ by platform, the formula does not
CalcNBR ==
  /\ pc = "mosaicked"
  /\ pre_cm_mos.bands /\ post_cm_mos.bands
  /\ \E z \in ZeroSumOutcomes :
       /\ preNBR' = normalizedDifference(pre_cm_mos, z)
       /\ postNBR' = normalizedDifference(post_cm_mos, z)
  /\ pc' = "nbr"
  /\ UNCHANGED <<platform, ImCol, pl, prefireImCol, postfireImCol,
                 prefire_CM_ImCol, postfire_CM_ImCol, swater, inArea,
                 pre_cm_mos, post_cm_mos, dNBR_unscaled, dNBR, classified,
                 err>>

\* lines 157-164 when a composite has no bands (the mosaic of an empty
\* collection): both statements are executed; the index of the epoch
\* that has bands is assigned, the index of the epoch without bands has no
\* value, and the platform reports that the named band is missing
CalcNBRNoBand ==
  /\ pc = "mosaicked"
  /\ ~(pre_cm_mos.bands /\ post_cm_mos.bands)
  /\ \E z \in ZeroSumOutcomes :
       /\ preNBR' = IF pre_cm_mos.bands
                    THEN normalizedDifference(pre_cm_mos, z)
                    ELSE NoIndex
       /\ postNBR' = IF post_cm_mos.bands
                     THEN normalizedDifference(post_cm_mos, z)
                     ELSE NoIndex
  /\ pc' = "error"
  /\ err' = "BandNotFound"
  /\ UNCHANGED <<platform, ImCol, pl, prefireImCol, postfireImCol,
                 prefire_CM_ImCol, postfire_CM_ImCol, swater, inArea,
                 pre_cm_mos, post_cm_mos, dNBR_unscaled, dNBR, classified>>

\* lines 169-173
Difference ==
  /\ pc = "nbr"
  /\ dNBR_unscaled' = subtract(preNBR, postNBR)
  /\ dNBR' = multiply(dNBR_unscaled', ScaleFactor)
  /\ pc' = "dnbr"
  /\ UNCHANGED <<platform, ImCol, pl, prefireImCol, postfireImCol,
                 prefire_CM_ImCol, postfire_CM_ImCol, swater, inArea,
                 pre_cm_mos, post_cm_mos, preNBR, postNBR, classified, err>>

\* lines 214-216
Classify ==
  /\ pc = "dnbr"
  /\ classified' = classify(dNBR)
  /\ pc' = "classified"
  /\ UNCHANGED <<platform, ImCol, pl, prefireImCol, postfireImCol,
                 prefire_CM_ImCol, postfire_CM_ImCol, swater, inArea,
                 pre_cm_mos, post_cm_mos, preNBR, postNBR, dNBR_unscaled,
                 dNBR, err>>

Next ==
  \/ SelectPlatform
  \/ FilterCollections
  \/ MaskClouds
  \/ MosaicAndClip
  \/ CalcNBR
  \/ CalcNBRNoBand
  \/ Difference
  \/ Classify

Spec == Init /\ [][Next]_vars

----------------------------------------------------------------------------
(* The classifier alone, on dNBR values around every threshold *)

\* dNBR values in thousandths: every threshold and its neighbours, and a
\* few values far from any threshold
ClassifierMilli ==
  {thresholds[j] * 1000 + d : j \in 1..Len(thresholds), d \in -Spread..Spread}
    \cup {-3000000, 0, 98999, 666667, 3000000}

ClassifierInputs ==
  {[mask |-> m, num |-> Norm(n, 1000).num, den |-> Norm(n, 1000).den] :
     m \in BOOLEAN, n \in ClassifierMilli}

InitClassify ==
  /\ pc = "dnbr"
  /\ dNBR \in ClassifierInputs
  /\ platform = "S2"
  /\ ImCol = "COPERNICUS/S2" /\ pl = "Sentinel-2"
  /\ prefireImCol = <<>> /\ postfireImCol = <<>>
  /\ prefire_CM_ImCol = <<>> /\ postfire_CM_ImCol = <<>>
  /\ swater = NoWater /\ inArea = TRUE
  /\ pre_cm_mos = NoRaster /\ post_cm_mos = NoRaster
  /\ preNBR = NoIndex /\ postNBR = NoIndex
  /\ dNBR_unscaled = NoIndex
  /\ classified = NoClass
  /\ err = "none"

SpecClassify == InitClassify /\ [][Classify]_vars

----------------------------------------------------------------------------
(* Vocabulary of the properties *)

K == Len(thresholds)

\* x < t and t <= x for a rational x and an integer t
Below(x, t) == x.num < t * x.den
AtLeast(x, t) == x.num >= t * x.den

\* u <= x for two rationals
RatLe(u, x) == u.num * x.den <= x.num * u.den

\* the interval rule: the zero-based index i with T[i-1] <= x < T[i],
\* T[-1] = -infinity, T[k] = +infinity (thresholds[i] is T[i-1])
IntervalIndex(x) ==
  CHOOSE i \in 0..K :
    /\ (i = 0 \/ AtLeast(x, thresholds[i]))
    /\ (i = K \/ Below(x, thresholds[i + 1]))

Classified == pc = "classified" /\ classified.mask

AfterMosaic == pc \in {"mosaicked", "nbr", "dnbr", "classified", "error"}
AfterNBR == pc \in {"nbr", "dnbr", "classified"}
AfterDiff == pc \in {"dnbr", "classified"}

SomeValid(col) == \E i \in 1..Len(col) : col[i].mask

FirstValid(col) ==
  CHOOSE i \in 1..Len(col) :
    col[i].mask /\ \A j \in 1..Len(col) : j < i => ~col[j].mask

LastValid(col) ==
  CHOOSE i \in 1..Len(col) :
    col[i].mask /\ \A j \in 1..Len(col) : j > i => ~col[j].mask

SameBands(image, other) == image.nir = other.nir /\ image.swir = other.swir

----------------------------------------------------------------------------
(* C1 *)

\* C1 as stated: every valid pixel gets the class index i of the interval
\* rule T[i-1] <= v < T[i]; a value equal to T[j] gets index j+1; and the
\* class index never decreases as the value increases.
C1_AsStated ==
  Classified =>
    /\ classified.val = IntervalIndex(dNBR)
    /\ \A j \in 1..K :
         (dNBR.num = thresholds[j] * dNBR.den) => classified.val = j
    /\ \A u \in ClassifierInputs :
         (u.mask /\ RatLe(u, dNBR)) => classify(u).val <= classified.val

\* C1 amended: every valid pixel with value v in the interval
\* T[i-1] <= v < T[i] gets the class index k - i (the intervals are
\* numbered from the top); a value equal to T[j] is put in the interval on
\* the higher-value side of that boundary, index k - (j+1); and the class
\* index never increases as the value increases.
C1_IntervalReversed ==
  Classified =>
    /\ classified.val = K - IntervalIndex(dNBR)
    /\ \A j \in 1..K :
         (dNBR.num = thresholds[j] * dNBR.den) => classified.val = K - j
    /\ \A u \in ClassifierInputs :
         (u.mask /\ RatLe(u, dNBR)) => classify(u).val >= classified.val

C1_Witness ==
  /\ Classified
  /\ dNBR.num = thresholds[2] * dNBR.den
  /\ classified.val = K - 2

----------------------------------------------------------------------------
(* C2 *)

\* C2 as stated: a valid pixel whose dNBR is exactly 99 is classified as
\* index 3, and one whose dNBR lies in [-101, 99) as index 2.
C2_AsStated ==
  Classified =>
    /\ (dNBR.num = 99 * dNBR.den) => classified.val = 3
    /\ (AtLeast(dNBR, -101) /\ Below(dNBR, 99)) => classified.val = 2

\* C2 amended: a valid pixel whose dNBR is exactly 99 is classified as
\* index 4 (four thresholds, 269, 439, 659 and 2000, exceed it), and one
\* whose dNBR lies in [-101, 99), such as 98.999, as index 5.
C2_Boundary99 ==
  Classified =>
    /\ (dNBR.num = 99 * dNBR.den) => classified.val = 4
    /\ (AtLeast(dNBR, -101) /\ Below(dNBR, 99)) => classified.val = 5

C2_Witness ==
  /\ Classified
  /\ dNBR.num = 99 /\ dNBR.den = 1
  /\ classified.val = 4

----------------------------------------------------------------------------
(* C10 *)

\* C10 as stated: for a valid pixel, classified is the number of
\* thresholds strictly greater than the value, an integer in 0..8, and
\* that count is the class index of the interval rule.
C10_AsStated ==
  Classified =>
    /\ classified.val =
         Cardinality({j \in 1..K : dNBR.num < thresholds[j] * dNBR.den})
    /\ classified.val \in 0..8
    /\ classified.val = IntervalIndex(dNBR)

\* C10 amended: for a valid pixel, classified is the number of thresholds
\* strictly greater than the value (a threshold equal to the value is not
\* counted), an integer in 0..8; two values get the same count exactly
\* when the interval rule puts them in the same interval, and the count is
\* 8 - i for the interval index i, not i.
C10_CountOfGreater ==
  Classified =>
    /\ classified.val =
         Cardinality({j \in 1..K : dNBR.num < thresholds[j] * dNBR.den})
    /\ classified.val \in 0..8
    /\ \A u \in ClassifierInputs :
         u.mask =>
           ((classify(u).val = classified.val)
              <=> (IntervalIndex(u) = IntervalIndex(dNBR)))
    /\ classified.val = 8 - IntervalIndex(dNBR)

C10_Witness ==
  /\ Classified
  /\ dNBR.num = 98999 /\ dNBR.den = 1000
  /\ classified.val = 5

----------------------------------------------------------------------------
(* C3 *)

\* the end to end scenario: the composites hold NIR=5000, SWIR2=1000
\* before the fire and NIR=3000, SWIR2=3000 after it, both valid
C3_Scenario ==
  /\ pc = "classified"
  /\ pre_cm_mos.mask /\ pre_cm_mos.nir = 5000 /\ pre_cm_mos.swir = 1000
  /\ post_cm_mos.mask /\ post_cm_mos.nir = 3000 /\ post_cm_mos.swir = 3000

\* dNBR = 1000 * (4000/6000 - 0) = 2000/3, a value in [659, 2000)
C3_Value ==
  /\ dNBR.mask
  /\ dNBR.num * 6000 = 1000 * 4000 * dNBR.den
  /\ AtLeast(dNBR, 659) /\ Below(dNBR, 2000)

\* C3 as stated: in the scenario dNBR = 1000 * (4000/6000 - 0), a value in
\* [659, 2000), and the classifier assigns it class index 6.
C3_AsStated ==
  C3_Scenario => (C3_Value /\ classified.mask /\ classified.val = 6)

\* C3 amended: in the scenario dNBR = 1000 * (4000/6000 - 0), a value in
\* [659, 2000), and the classifier assigns it class index 1: one
\* threshold, 2000, exceeds it.
C3_EndToEnd ==
  C3_Scenario => (C3_Value /\ classified.mask /\ classified.val = 1)

C3_Witness == C3_Scenario /\ classified.mask /\ classified.val = 1

----------------------------------------------------------------------------
(* C4 *)

\* the composite of a collection agrees with the image chosen by pick
\* wherever some image of the collection is valid
MosaicPicks(col, mos, pick) ==
  SomeValid(col) =>
    /\ mosaic(col).mask /\ SameBands(mosaic(col), col[pick])
    /\ mos.mask => SameBands(mos, col[pick])

\* C4 as stated: where at least one image of the date-ordered collection
\* is valid, the epoch composite holds the band values of the EARLIEST
\* valid image.
C4_AsStated ==
  AfterMosaic =>
    /\ MosaicPicks(prefire_CM_ImCol, pre_cm_mos, FirstValid(prefire_CM_ImCol))
    /\ MosaicPicks(postfire_CM_ImCol, post_cm_mos, FirstValid(postfire_CM_ImCol))

\* C4 amended: where at least one image of the date-ordered collection is
\* valid, the epoch composite holds the band values of the LATEST valid
\* image (later images are painted over earlier ones); where only one
\* image is valid, that image's values.
C4_LastValidWins ==
  AfterMosaic =>
    /\ MosaicPicks(prefire_CM_ImCol, pre_cm_mos, LastValid(prefire_CM_ImCol))
    /\ MosaicPicks(postfire_CM_ImCol, post_cm_mos, LastValid(postfire_CM_ImCol))

\* a full collection whose first and last images are both valid, with
\* different values: the composite holds the last one's
C4_Witness ==
  /\ pc = "mosaicked"
  /\ Len(prefire_CM_ImCol) = MaxImages
  /\ prefire_CM_ImCol[1].mask /\ prefire_CM_ImCol[MaxImages].mask
  /\ ~SameBands(prefire_CM_ImCol[1], prefire_CM_ImCol[MaxImages])
  /\ pre_cm_mos.mask
  /\ SameBands(pre_cm_mos, prefire_CM_ImCol[MaxImages])

----------------------------------------------------------------------------
(* C5 *)

EmptyEpoch ==
  /\ pc \notin {"start", "selected"}
  /\ (Len(prefireImCol) = 0 \/ Len(postfireImCol) = 0)

\* C5 as stated: when the filter yields no image for either epoch, the
\* pipeline stops with an EmptyCollection error before any composite,
\* index, dNBR or classified raster is produced.
C5_AsStated ==
  EmptyEpoch =>
    \/ pc \in {"filtered", "masked"}
    \/ (pc = "error" /\ err = "EmptyCollection")

----------------------------------------------------------------------------
(* C6 *)

\* the cloud, cloud shadow and snow flags of pixel_qa are all clear
FlagsClear(image) ==
  /\ bitwiseAnd(image.qa, 2^5) = 0
  /\ bitwiseAnd(image.qa, 2^3) = 0
  /\ bitwiseAnd(image.qa, 2^4) = 0

\* a composite pixel is valid only if some image is clear there, the
\* seasonality is below the cutoff and the pixel is inside the area
ValidOnlyIfAll(col, mos) ==
  mos.mask =>
    /\ \E i \in 1..Len(col) : FlagsClear(col[i])
    /\ (swater.mask => swater.val < SeasonalityCutoff)
    /\ inArea

\* C6 as stated: validity of the cloud masked composites is the AND of
\* all checks: (a) some image has its cloud, shadow and snow flags clear
\* at the pixel, (b) seasonality below 10, (c) inside the area.
C6_AsStated ==
  (AfterMosaic /\ platform = "L8") =>
    /\ ValidOnlyIfAll(prefireImCol, pre_cm_mos)
    /\ ValidOnlyIfAll(postfireImCol, post_cm_mos)

----------------------------------------------------------------------------
(* C8 *)

\* C8: a pixel invalid in preNBR or in postNBR is invalid in dNBR_unscaled
\* and in dNBR; a pixel invalid in dNBR is invalid in classified; a class
\* index is assigned only to pixels valid in both epochs.
C8_NoDataPropagates ==
  /\ AfterDiff =>
       ((~preNBR.mask \/ ~postNBR.mask) => (~dNBR_unscaled.mask /\ ~dNBR.mask))
  /\ pc = "classified" =>
       /\ ~dNBR.mask => ~classified.mask
       /\ classified.mask =>
            /\ preNBR.mask /\ postNBR.mask
            /\ pre_cm_mos.mask /\ post_cm_mos.mask

C8_Witness ==
  /\ pc = "classified"
  /\ preNBR.mask /\ ~postNBR.mask
  /\ ~dNBR.mask /\ ~classified.mask

----------------------------------------------------------------------------
(* C9 *)

SupportedPlatforms == {"S2", "s2", "L8"}

\* C9 as stated: a platform value naming neither supported sensor is
\* rejected with an InvalidConfiguration error before any collection is
\* filtered, and is never processed with a supported sensor's collection.
C9_AsStated ==
  (platform \notin SupportedPlatforms /\ pc # "start") =>
    /\ pc = "error" /\ err = "InvalidConfiguration"
    /\ ImCol \notin {"COPERNICUS/S2", "LANDSAT/LC08/C01/T1_SR"}

====
